---- MODULE Spec2Model ----
(***************************************************************************)
(* Model of the core data types of Ebi_optimisation:                       *)
(*   - AbnormalFraction (src/src/abnormal_fraction.rs): its arithmetic,    *)
(*     ordering, rounding, classification and extraction;                  *)
(*   - ScatteredVec and SparseMat (src/src/linear_programming_sparse.rs);  *)
(*   - MulWithFloat and ToBigInt (src/src/network_simplex_value_type.rs);  *)
(*   - resized_view (src/src/linear_programming_helpers.rs);               *)
(*   - Sum for AbnormalFraction (src/src/abnormal_fraction.rs).            *)
(*                                                                         *)
(* Each component has a driver of its own and a specification of its own   *)
(* (Spec, SpecSV, SpecSM, SpecND, SpecRV, SpecSum) over the shared initial *)
(* state; a step of one driver leaves the variables of the others alone.   *)
(*                                                                         *)
(* The AbnormalFraction driver holds one value `acc`.  Every step applies  *)
(* one operation of the type to `acc` (and, for binary operations, to an   *)
(* operand drawn from a bounded set) and records the operation, its        *)
(* operands and its result.                                                *)
(***************************************************************************)
EXTENDS Integers, Sequences, FiniteSets, TLC

VARIABLES acc, op, lhs, rhs, res

VARIABLES sv, svop, svarg, svres, svfirst, svpure

VARIABLES sm, smop, smarg, smres, smaborted, smpending

VARIABLES ndop, ndself, ndrhs, ndres

VARIABLES rvpc, rvvec, rvlen, rvindices, rvdata, rvview

VARIABLES sumitems, sumtotal

afVars == <<acc, op, lhs, rhs, res>>
svVars == <<sv, svop, svarg, svres, svfirst, svpure>>
smVars == <<sm, smop, smarg, smres, smaborted, smpending>>
ndVars == <<ndop, ndself, ndrhs, ndres>>
rvVars == <<rvpc, rvvec, rvlen, rvindices, rvdata, rvview>>
sumVars == <<sumitems, sumtotal>>

vars == <<afVars, svVars, smVars, ndVars, rvVars, sumVars>>

\* the variables of the other components, which a step of one component leaves alone
notAF == <<svVars, smVars, ndVars, rvVars, sumVars>>
notSV == <<afVars, smVars, ndVars, rvVars, sumVars>>
notSM == <<afVars, svVars, ndVars, rvVars, sumVars>>
notND == <<afVars, svVars, smVars, rvVars, sumVars>>
notRV == <<afVars, svVars, smVars, ndVars, sumVars>>
notSum == <<afVars, svVars, smVars, ndVars, rvVars>>

\* Largest numerator magnitude and denominator of the operands drawn.
MaxNum == 2
MaxDen == 2

(***************************************************************************)
(* Fraction (ebi_arithmetic, exact mode): a reduced rational num/den with  *)
(* den > 0.                                                                *)
(***************************************************************************)
RECURSIVE Gcd(_, _)
Gcd(a, b) == IF b = 0 THEN a ELSE Gcd(b, a % b)

AbsInt(n) == IF n < 0 THEN -n ELSE n

\* The canonical (reduced, positive denominator) form of n/d, d # 0.
Norm(n, d) ==
  LET s == IF d < 0 THEN -1 ELSE 1
      g == Gcd(AbsInt(n), AbsInt(d))
  IN  [num |-> (s * n) \div g, den |-> (s * d) \div g]

FracZero == [num |-> 0, den |-> 1]
FracOne == [num |-> 1, den |-> 1]

FracAdd(f, g) == Norm(f.num * g.den + g.num * f.den, f.den * g.den)
FracSub(f, g) == Norm(f.num * g.den - g.num * f.den, f.den * g.den)
FracMul(f, g) == Norm(f.num * g.num, f.den * g.den)
FracDiv(f, g) == Norm(f.num * g.den, f.den * g.num)
FracNeg(f) == [num |-> -f.num, den |-> f.den]
FracAbs(f) == [num |-> AbsInt(f.num), den |-> f.den]
FracFloor(f) == [num |-> f.num \div f.den, den |-> 1]
FracCeil(f) == [num |-> -((-f.num) \div f.den), den |-> 1]
FracIsZero(f) == f.num = 0
FracIsOne(f) == f.num = 1 /\ f.den = 1
FracIsPositive(f) == f.num > 0
FracIsNegative(f) == f.num < 0
FracCmp(f, g) ==
  IF f.num * g.den < g.num * f.den THEN "Less"
  ELSE IF f.num * g.den > g.num * f.den THEN "Greater"
  ELSE "Equal"

\* extraction on an exact fraction: the exact value is there, no approximate one
Ok(v) == [ok |-> TRUE, val |-> v]
Err(m) == [ok |-> FALSE, msg |-> m]
FracExtractExact(f) == Ok(f)
FracExtractApprox(f) == Err("cannot extract a float from a fraction")
FracToExact(f) == Ok(f)
FracToApprox(f) == Err("cannot extract a float from a fraction")

(***************************************************************************)
(* enum AbnormalFraction { Normal(Fraction), Infinite, NegInfinite, NaN }  *)
(***************************************************************************)
\* (records are written with their fields in the order TLC keeps them)
Normal(f) == [num |-> f.num, den |-> f.den, tag |-> "Normal"]
Infinite == [tag |-> "Infinite"]
NegInfinite == [tag |-> "NegInfinite"]
NaN == [tag |-> "NaN"]
Frac(a) == [num |-> a.num, den |-> a.den]

\* the operand of a unary operation
NoArg == [tag |-> "None"]

infinity == Infinite
neg_infinity == NegInfinite
default == Normal(FracZero)
zero == Normal(FracZero)
\* one() built from Fraction::zero()
one_from_zero == Normal(FracZero)

one == Normal(FracOne)
from_usize(n) == Normal(Norm(n, 1))
from_pair(n, d) == Normal(Norm(n, d))

is_finite(a) ==
  CASE a.tag = "Normal" -> TRUE
    [] a.tag \in {"Infinite", "NegInfinite"} -> FALSE
    [] a.tag = "NaN" -> FALSE

\* is_infinite as the negation of is_finite
is_infinite_not_finite(a) == ~is_finite(a)

is_infinite(a) ==
  CASE a.tag = "Normal" -> FALSE
    [] a.tag \in {"Infinite", "NegInfinite"} -> TRUE
    [] a.tag = "NaN" -> FALSE

is_neg_infinite(a) ==
  CASE a.tag \in {"Normal", "Infinite", "NaN"} -> FALSE
    [] a.tag = "NegInfinite" -> TRUE

both_normal(a, b) ==
  IF a.tag = "Normal" /\ b.tag = "Normal" THEN TRUE ELSE FALSE

abs(a) ==
  CASE a.tag = "Normal" -> Normal(FracAbs(Frac(a)))
    [] a.tag = "Infinite" -> NegInfinite
    [] a.tag = "NegInfinite" -> Infinite
    [] a.tag = "NaN" -> NaN

is_zero(a) ==
  CASE a.tag = "Normal" -> FracIsZero(Frac(a))
    [] a.tag \in {"Infinite", "NegInfinite", "NaN"} -> FALSE

is_one(a) ==
  CASE a.tag = "Normal" -> FracIsOne(Frac(a))
    [] a.tag \in {"Infinite", "NegInfinite", "NaN"} -> FALSE

extract_approx(a) ==
  CASE a.tag = "Normal" -> FracExtractApprox(Frac(a))
    [] a.tag \in {"Infinite", "NegInfinite", "NaN"} ->
         Err("cannot extract an approximate value")

extract_exact(a) ==
  CASE a.tag = "Normal" -> FracExtractExact(Frac(a))
    [] a.tag \in {"Infinite", "NegInfinite", "NaN"} ->
         Err("cannot extract an exact value")

to_approx(a) ==
  CASE a.tag = "Normal" -> FracToApprox(Frac(a))
    [] a.tag \in {"Infinite", "NegInfinite", "NaN"} ->
         Err("cannot extract an approximate value")

\* to_exact handing out a zero for NaN
to_exact_nan_ok(a) ==
  IF a.tag = "NaN" THEN Ok(FracZero) ELSE extract_exact(a)

to_exact(a) ==
  CASE a.tag = "Normal" -> FracToExact(Frac(a))
    [] a.tag \in {"Infinite", "NegInfinite", "NaN"} ->
         Err("cannot extract an exact value")

\* the derived ==: the same variant and, for Normal, the same fraction
eq(a, b) ==
  CASE a.tag = "Normal" /\ b.tag = "Normal" -> Frac(a) = Frac(b)
    [] a.tag = "Infinite" /\ b.tag = "Infinite" -> TRUE
    [] a.tag = "NegInfinite" /\ b.tag = "NegInfinite" -> TRUE
    [] a.tag = "NaN" /\ b.tag = "NaN" -> TRUE
    [] OTHER -> FALSE

\* Option<Ordering>: "Less", "Equal", "Greater" or "None"
\* partial_cmp with equal infinities comparing Equal
partial_cmp_equal_inf(a, b) ==
  LET rank(x) == CASE x.tag = "NegInfinite" -> 0 [] x.tag = "Normal" -> 1
                   [] x.tag = "Infinite" -> 2 [] OTHER -> 3
  IN  IF a.tag = "NaN" \/ b.tag = "NaN" THEN "None"
      ELSE IF a.tag = "Normal" /\ b.tag = "Normal" THEN FracCmp(Frac(a), Frac(b))
      ELSE IF rank(a) < rank(b) THEN "Less"
      ELSE IF rank(a) > rank(b) THEN "Greater"
      ELSE "Equal"

partial_cmp(a, b) ==
  CASE a.tag = "Normal" /\ b.tag = "Normal" -> FracCmp(Frac(a), Frac(b))
    [] a.tag = "Normal" /\ b.tag = "Infinite" -> "Less"
    [] a.tag = "Normal" /\ b.tag = "NegInfinite" -> "Greater"
    [] a.tag = "Infinite" /\ b.tag = "Normal" -> "Greater"
    [] a.tag = "Infinite" /\ b.tag = "Infinite" -> "None"
    [] a.tag = "Infinite" /\ b.tag = "NegInfinite" -> "Greater"
    [] a.tag = "NegInfinite" /\ b.tag = "Normal" -> "Less"
    [] a.tag = "NegInfinite" /\ b.tag = "Infinite" -> "Less"
    [] a.tag = "NegInfinite" /\ b.tag = "NegInfinite" -> "None"
    [] b.tag = "NaN" -> "None"
    [] a.tag = "NaN" -> "None"

floor(a) ==
  CASE a.tag = "Normal" -> Normal(FracFloor(Frac(a)))
    [] a.tag = "Infinite" -> Infinite
    [] a.tag = "NegInfinite" -> NegInfinite
    [] a.tag = "NaN" -> NaN

ceil(a) ==
  CASE a.tag = "Normal" -> Normal(FracCeil(Frac(a)))
    [] a.tag = "Infinite" -> Infinite
    [] a.tag = "NegInfinite" -> NegInfinite
    [] a.tag = "NaN" -> NaN

neg(a) ==
  CASE a.tag = "Normal" -> Normal(FracNeg(Frac(a)))
    [] a.tag = "Infinite" -> NegInfinite
    [] a.tag = "NegInfinite" -> Infinite
    [] a.tag = "NaN" -> NaN

neg_ref(a) ==
  CASE a.tag = "Normal" -> Normal(FracNeg(Frac(a)))
    [] a.tag = "Infinite" -> NegInfinite
    [] a.tag = "NegInfinite" -> Infinite
    [] a.tag = "NaN" -> NaN

\* add with +infinity absorbing a NaN on its right
add_inf_absorbs_nan(a, b) ==
  IF a.tag = "Infinite" /\ b.tag = "NaN" THEN Infinite
  ELSE IF a.tag = "NaN" \/ b.tag = "NaN" THEN NaN
  ELSE IF a.tag = "Normal" /\ b.tag = "Normal" THEN Normal(FracAdd(Frac(a), Frac(b)))
  ELSE IF a.tag = "Normal" THEN b
  ELSE IF b.tag = "Normal" \/ a.tag = b.tag THEN a
  ELSE NaN

add(a, b) ==
  CASE a.tag = "Normal" /\ b.tag = "Normal" -> Normal(FracAdd(Frac(a), Frac(b)))
    [] a.tag = "Normal" /\ b.tag = "Infinite" -> Infinite
    [] a.tag = "Normal" /\ b.tag = "NegInfinite" -> NegInfinite
    [] a.tag = "Infinite" /\ b.tag = "Normal" -> Infinite
    [] a.tag = "Infinite" /\ b.tag = "Infinite" -> Infinite
    [] a.tag = "Infinite" /\ b.tag = "NegInfinite" -> NaN
    [] a.tag = "NegInfinite" /\ b.tag = "Normal" -> NegInfinite
    [] a.tag = "NegInfinite" /\ b.tag = "Infinite" -> NaN
    [] a.tag = "NegInfinite" /\ b.tag = "NegInfinite" -> NegInfinite
    [] b.tag = "NaN" -> NaN
    [] a.tag = "NaN" -> NaN

\* add_ref with the opposite infinities cancelling to +inf instead of NaN
add_ref_inf_cancel(a, b) ==
  IF a.tag = "Infinite" /\ b.tag = "NegInfinite" THEN Infinite ELSE add(a, b)

add_ref(a, b) ==
  CASE a.tag = "Normal" /\ b.tag = "Normal" -> Normal(FracAdd(Frac(a), Frac(b)))
    [] a.tag = "Normal" /\ b.tag = "Infinite" -> Infinite
    [] a.tag = "Normal" /\ b.tag = "NegInfinite" -> NegInfinite
    [] a.tag = "Infinite" /\ b.tag = "Normal" -> Infinite
    [] a.tag = "Infinite" /\ b.tag = "Infinite" -> Infinite
    [] a.tag = "Infinite" /\ b.tag = "NegInfinite" -> NaN
    [] a.tag = "NegInfinite" /\ b.tag = "Normal" -> NegInfinite
    [] a.tag = "NegInfinite" /\ b.tag = "Infinite" -> NaN
    [] a.tag = "NegInfinite" /\ b.tag = "NegInfinite" -> NegInfinite
    [] b.tag = "NaN" -> NaN
    [] a.tag = "NaN" -> NaN

\* the value of *self after `self += rhs`
\* add_assign overwriting a NaN accumulator with the right operand
add_assign_nan_overwritten(a, b) ==
  IF a.tag = "NaN" THEN b ELSE add(a, b)

add_assign(a, b) ==
  IF both_normal(a, b)
  THEN Normal(FracAdd(Frac(a), Frac(b)))
  ELSE CASE a.tag = "Normal" /\ b.tag = "Infinite" -> Infinite
         [] a.tag = "Normal" /\ b.tag = "NegInfinite" -> NegInfinite
         [] a.tag = "Infinite" /\ b.tag = "Normal" -> a
         [] a.tag = "Infinite" /\ b.tag = "Infinite" -> a
         [] a.tag = "Infinite" /\ b.tag = "NegInfinite" -> NaN
         [] a.tag = "NegInfinite" /\ b.tag = "Normal" -> a
         [] a.tag = "NegInfinite" /\ b.tag = "Infinite" -> NaN
         [] a.tag = "NegInfinite" /\ b.tag = "NegInfinite" -> a
         [] b.tag = "NaN" -> NaN
         [] a.tag = "NaN" -> a

sub(a, b) ==
  CASE a.tag = "Normal" /\ b.tag = "Normal" -> Normal(FracSub(Frac(a), Frac(b)))
    [] a.tag = "Normal" /\ b.tag = "Infinite" -> NegInfinite
    [] a.tag = "Normal" /\ b.tag = "NegInfinite" -> Infinite
    [] a.tag = "Infinite" /\ b.tag = "Normal" -> Infinite
    [] a.tag = "Infinite" /\ b.tag = "Infinite" -> NaN
    [] a.tag = "Infinite" /\ b.tag = "NegInfinite" -> Infinite
    [] a.tag = "NegInfinite" /\ b.tag = "Normal" -> NegInfinite
    [] a.tag = "NegInfinite" /\ b.tag = "Infinite" -> NegInfinite
    [] a.tag = "NegInfinite" /\ b.tag = "NegInfinite" -> NaN
    [] b.tag = "NaN" -> NaN
    [] a.tag = "NaN" -> NaN

\* sub_ref copying the addition table for equal infinities
sub_ref_as_add(a, b) ==
  IF a.tag = b.tag /\ a.tag \in {"Infinite", "NegInfinite"} THEN a ELSE sub(a, b)

sub_ref(a, b) ==
  CASE a.tag = "Normal" /\ b.tag = "Normal" -> Normal(FracSub(Frac(a), Frac(b)))
    [] a.tag = "Normal" /\ b.tag = "Infinite" -> NegInfinite
    [] a.tag = "Normal" /\ b.tag = "NegInfinite" -> Infinite
    [] a.tag = "Infinite" /\ b.tag = "Normal" -> Infinite
    [] a.tag = "Infinite" /\ b.tag = "Infinite" -> NaN
    [] a.tag = "Infinite" /\ b.tag = "NegInfinite" -> Infinite
    [] a.tag = "NegInfinite" /\ b.tag = "Normal" -> NegInfinite
    [] a.tag = "NegInfinite" /\ b.tag = "Infinite" -> NegInfinite
    [] a.tag = "NegInfinite" /\ b.tag = "NegInfinite" -> NaN
    [] b.tag = "NaN" -> NaN
    [] a.tag = "NaN" -> NaN

\* the value of *self after `self -= rhs`
sub_assign_inf_minus_inf_kept(a, b) ==
  IF a.tag = "Infinite" /\ b.tag = "Infinite" THEN a
  ELSE IF a.tag = "Normal" /\ b.tag = "Normal" THEN Normal(FracSub(Frac(a), Frac(b)))
  ELSE IF b.tag = "NaN" THEN NaN
  ELSE IF a.tag = "Normal" /\ b.tag = "Infinite" THEN NegInfinite
  ELSE IF a.tag = "Normal" /\ b.tag = "NegInfinite" THEN Infinite
  ELSE IF a.tag = "NegInfinite" /\ b.tag = "NegInfinite" THEN NaN
  ELSE a

sub_assign(a, b) ==
  IF both_normal(a, b)
  THEN Normal(FracSub(Frac(a), Frac(b)))
  ELSE CASE a.tag = "Normal" /\ b.tag = "Infinite" -> NegInfinite
         [] a.tag = "Normal" /\ b.tag = "NegInfinite" -> Infinite
         [] a.tag = "Infinite" /\ b.tag = "Normal" -> a
         [] a.tag = "Infinite" /\ b.tag = "Infinite" -> NaN
         [] a.tag = "Infinite" /\ b.tag = "NegInfinite" -> a
         [] a.tag = "NegInfinite" /\ b.tag = "Normal" -> a
         [] a.tag = "NegInfinite" /\ b.tag = "Infinite" -> a
         [] a.tag = "NegInfinite" /\ b.tag = "NegInfinite" -> NaN
         [] b.tag = "NaN" -> NaN
         [] a.tag = "NaN" -> a

mul(a, b) ==
  CASE a.tag = "Normal" /\ b.tag = "Normal" -> Normal(FracMul(Frac(a), Frac(b)))
    [] a.tag = "Normal" /\ b.tag = "Infinite" ->
         IF FracIsPositive(Frac(a)) THEN Infinite
         ELSE IF FracIsNegative(Frac(a)) THEN NegInfinite ELSE NaN
    [] a.tag = "Normal" /\ b.tag = "NegInfinite" ->
         IF FracIsPositive(Frac(a)) THEN NegInfinite
         ELSE IF FracIsNegative(Frac(a)) THEN Infinite ELSE NaN
    [] a.tag = "Infinite" /\ b.tag = "Normal" ->
         IF FracIsPositive(Frac(b)) THEN Infinite
         ELSE IF FracIsNegative(Frac(b)) THEN NegInfinite ELSE NaN
    [] a.tag = "Infinite" /\ b.tag = "Infinite" -> Infinite
    [] a.tag = "Infinite" /\ b.tag = "NegInfinite" -> NegInfinite
    [] a.tag = "NegInfinite" /\ b.tag = "Normal" ->
         IF FracIsPositive(Frac(b)) THEN NegInfinite
         ELSE IF FracIsNegative(Frac(b)) THEN Infinite ELSE NaN
    [] a.tag = "NegInfinite" /\ b.tag = "Infinite" -> NegInfinite
    [] a.tag = "NegInfinite" /\ b.tag = "NegInfinite" -> Infinite
    [] b.tag = "NaN" -> NaN
    [] a.tag = "NaN" -> NaN

\* mul_ref ignoring the zero case of a finite factor
mul_ref_zero_times_inf(a, b) ==
  IF a.tag = "Normal" /\ FracIsZero(Frac(a)) /\ b.tag \in {"Infinite", "NegInfinite"}
  THEN b ELSE mul(a, b)

mul_ref(a, b) ==
  CASE a.tag = "Normal" /\ b.tag = "Normal" -> Normal(FracMul(Frac(a), Frac(b)))
    [] a.tag = "Normal" /\ b.tag = "Infinite" ->
         IF FracIsPositive(Frac(a)) THEN Infinite
         ELSE IF FracIsNegative(Frac(a)) THEN NegInfinite ELSE NaN
    [] a.tag = "Normal" /\ b.tag = "NegInfinite" ->
         IF FracIsPositive(Frac(a)) THEN NegInfinite
         ELSE IF FracIsNegative(Frac(a)) THEN Infinite ELSE NaN
    [] a.tag = "Infinite" /\ b.tag = "Normal" ->
         IF FracIsPositive(Frac(b)) THEN Infinite
         ELSE IF FracIsNegative(Frac(b)) THEN NegInfinite ELSE NaN
    [] a.tag = "Infinite" /\ b.tag = "Infinite" -> Infinite
    [] a.tag = "Infinite" /\ b.tag = "NegInfinite" -> NegInfinite
    [] a.tag = "NegInfinite" /\ b.tag = "Normal" ->
         IF FracIsPositive(Frac(b)) THEN NegInfinite
         ELSE IF FracIsNegative(Frac(b)) THEN Infinite ELSE NaN
    [] a.tag = "NegInfinite" /\ b.tag = "Infinite" -> NegInfinite
    [] a.tag = "NegInfinite" /\ b.tag = "NegInfinite" -> Infinite
    [] b.tag = "NaN" -> NaN
    [] a.tag = "NaN" -> NaN

div(a, b) ==
  CASE a.tag = "Normal" /\ b.tag = "Normal" ->
         IF ~FracIsZero(Frac(b)) THEN Normal(FracDiv(Frac(a), Frac(b))) ELSE NaN
    [] a.tag = "Normal" /\ b.tag = "Infinite" -> Normal(FracZero)
    [] a.tag = "Normal" /\ b.tag = "NegInfinite" -> Normal(FracZero)
    [] a.tag = "Infinite" /\ b.tag = "Normal" ->
         IF FracIsPositive(Frac(b)) THEN Infinite
         ELSE IF FracIsNegative(Frac(b)) THEN NegInfinite ELSE NaN
    [] a.tag = "Infinite" /\ b.tag = "Infinite" -> NaN
    [] a.tag = "Infinite" /\ b.tag = "NegInfinite" -> NaN
    [] a.tag = "NegInfinite" /\ b.tag = "Normal" ->
         IF FracIsPositive(Frac(b)) THEN NegInfinite
         ELSE IF FracIsNegative(Frac(b)) THEN Infinite ELSE NaN
    [] a.tag = "NegInfinite" /\ b.tag = "Infinite" -> NaN
    [] a.tag = "NegInfinite" /\ b.tag = "NegInfinite" -> NaN
    [] b.tag = "NaN" -> NaN
    [] a.tag = "NaN" -> NaN

\* div_ref dividing equal infinities to one
div_ref_inf_by_inf(a, b) ==
  IF a.tag = "Infinite" /\ b.tag = "Infinite" THEN Normal(FracOne) ELSE div(a, b)

div_ref(a, b) ==
  CASE a.tag = "Normal" /\ b.tag = "Normal" ->
         IF ~FracIsZero(Frac(b)) THEN Normal(FracDiv(Frac(a), Frac(b))) ELSE NaN
    [] a.tag = "Normal" /\ b.tag = "Infinite" -> Normal(FracZero)
    [] a.tag = "Normal" /\ b.tag = "NegInfinite" -> Normal(FracZero)
    [] a.tag = "Infinite" /\ b.tag = "Normal" ->
         IF FracIsPositive(Frac(b)) THEN Infinite
         ELSE IF FracIsNegative(Frac(b)) THEN NegInfinite ELSE NaN
    [] a.tag = "Infinite" /\ b.tag = "Infinite" -> NaN
    [] a.tag = "Infinite" /\ b.tag = "NegInfinite" -> NaN
    [] a.tag = "NegInfinite" /\ b.tag = "Normal" ->
         IF FracIsPositive(Frac(b)) THEN NegInfinite
         ELSE IF FracIsNegative(Frac(b)) THEN Infinite ELSE NaN
    [] a.tag = "NegInfinite" /\ b.tag = "Infinite" -> NaN
    [] a.tag = "NegInfinite" /\ b.tag = "NegInfinite" -> NaN
    [] b.tag = "NaN" -> NaN
    [] a.tag = "NaN" -> NaN

(***************************************************************************)
(* The values a driver draws: the fractions n/d with |n| <= MaxNum and     *)
(* 1 <= d <= MaxDen, and the three abnormal values.                        *)
(***************************************************************************)
Operand(k, n, d) ==
  CASE k = 0 -> Normal(Norm(n, d))
    [] k = 1 -> Infinite
    [] k = 2 -> NegInfinite
    [] k = 3 -> NaN
\* each abnormal value is drawn once
IsDraw(k, n, d) == k = 0 \/ (n = 0 /\ d = 1)
InBounds(a) ==
  \/ a.tag \in {"Infinite", "NegInfinite", "NaN"}
  \/ a.tag = "Normal" /\ AbsInt(a.num) <= MaxNum /\ a.den <= MaxDen

(***************************************************************************)
(* ScatteredVec (src/src/linear_programming_sparse.rs): a dense vector of  *)
(* AbnormalFraction with a list of the positions in use.  Positions are    *)
(* counted from 0 as in the source; position i is element i + 1 of the     *)
(* sequences `values` and `is_nonzero`.                                    *)
(***************************************************************************)
\* Largest length of a ScatteredVec, and longest argument of set().
MaxLen == 2
MaxSetLen == 2

Range(s) == {s[k] : k \in 1..Len(s)}

\* Sum::sum: the left fold of + over the items, starting from zero
RECURSIVE sum_fold(_, _, _)
sum_fold(total, items, k) ==
  IF k > Len(items) THEN total
  ELSE sum_fold(add(total, items[k]), items, k + 1)

sum(items) == sum_fold(zero, items, 1)

\* vec.resize(n, fill)
resize(s, n, fill) == [j \in 1..n |-> IF j <= Len(s) THEN s[j] ELSE fill]

sv_empty(n) ==
  [values |-> [j \in 1..n |-> zero],
   is_nonzero |-> [j \in 1..n |-> FALSE],
   nonzero |-> <<>>]

sv_len(s) == Len(s.values)

sv_indices(s) == s.nonzero

sv_get(s, i) == s.values[i + 1]

sv_get_mut_always_push(s, i) ==
  [values |-> s.values,
   is_nonzero |-> [s.is_nonzero EXCEPT ![i + 1] = TRUE],
   nonzero |-> Append(s.nonzero, i)]

\* get_mut(i): flag position i and, if the flag was clear, list it
sv_get_mut(s, i) ==
  [values |-> s.values,
   is_nonzero |-> [s.is_nonzero EXCEPT ![i + 1] = TRUE],
   nonzero |-> IF ~s.is_nonzero[i + 1] THEN Append(s.nonzero, i) ELSE s.nonzero]

\* the caller's assignment through the reference get_mut(i) returned
sv_write(s, i, w) ==
  [values |-> [s.values EXCEPT ![i + 1] = w],
   is_nonzero |-> s.is_nonzero,
   nonzero |-> s.nonzero]

sv_sq_norm(s) ==
  sum([k \in 1..Len(s.nonzero) |->
         mul_ref(s.values[s.nonzero[k] + 1], s.values[s.nonzero[k] + 1])])

\* the loop of clear(): the listed positions, in order
RECURSIVE sv_clear_loop(_, _)
sv_clear_loop(s, k) ==
  IF k > Len(s.nonzero) THEN s
  ELSE sv_clear_loop(
         [values |-> [s.values EXCEPT ![s.nonzero[k] + 1] = zero],
          is_nonzero |-> [s.is_nonzero EXCEPT ![s.nonzero[k] + 1] = FALSE],
          nonzero |-> s.nonzero],
         k + 1)

sv_clear_keeps_flags(s) ==
  [values |-> [j \in 1..Len(s.values) |-> zero],
   is_nonzero |-> s.is_nonzero,
   nonzero |-> <<>>]

sv_clear_keeps_values(s) ==
  [values |-> s.values,
   is_nonzero |-> [j \in 1..Len(s.values) |-> FALSE],
   nonzero |-> <<>>]

sv_clear(s) ==
  LET looped == sv_clear_loop(s, 1)
  IN  [values |-> looped.values,
       is_nonzero |-> looped.is_nonzero,
       nonzero |-> <<>>]

sv_clear_and_resize(s, n) ==
  LET cleared == sv_clear(s)
  IN  [values |-> resize(cleared.values, n, zero),
       is_nonzero |-> resize(cleared.is_nonzero, n, FALSE),
       nonzero |-> cleared.nonzero]

\* the loop of set(): every pair <<i, val>> of rhs, in order
RECURSIVE sv_set_loop(_, _, _)
sv_set_loop(s, rhs_items, k) ==
  IF k > Len(rhs_items) THEN s
  ELSE sv_set_loop(
         [values |-> [s.values EXCEPT ![rhs_items[k][1] + 1] = rhs_items[k][2]],
          is_nonzero |-> [s.is_nonzero EXCEPT ![rhs_items[k][1] + 1] = TRUE],
          nonzero |-> Append(s.nonzero, rhs_items[k][1])],
         rhs_items, k + 1)

sv_set_without_clear(s, rhs_items) == sv_set_loop(s, rhs_items, 1)

sv_set(s, rhs_items) == sv_set_loop(sv_clear(s), rhs_items, 1)

\* The values drawn for the entries of vectors and matrices.
DrawnValues == <<from_usize(2), NegInfinite>>

\* The entry <<index, value>> numbered p, of the entries with index below n.
DrawnEntry(p) == <<p \div Len(DrawnValues), DrawnValues[(p % Len(DrawnValues)) + 1]>>

DrawnEntries(n) == 0..(n * Len(DrawnValues) - 1)

(***************************************************************************)
(* SparseMat (src/src/linear_programming_sparse.rs): a column-compressed   *)
(* matrix.  Rows and columns are counted from 0 as in the source; element  *)
(* p of a Rust vector is element p + 1 of the sequence that models it.     *)
(***************************************************************************)
\* Largest number of rows, of columns and of stored entries of a SparseMat.
MaxRows == 2
MaxCols == 2
MaxNnz == 2

sm_new(n) == [n_rows |-> n, indptr |-> <<0>>, indices |-> <<>>, data |-> <<>>]

sm_rows(m) == m.n_rows

sm_cols(m) == Len(m.indptr) - 1

sm_nnz(m) == Len(m.data)

sm_clear_and_resize_keeps_indptr(m, n) ==
  [n_rows |-> n, indptr |-> m.indptr, indices |-> <<>>, data |-> <<>>]

sm_clear_and_resize(m, n) ==
  [n_rows |-> n, indptr |-> <<0>>, indices |-> <<>>, data |-> <<>>]

sm_push(m, row, val) ==
  [n_rows |-> m.n_rows,
   indptr |-> m.indptr,
   indices |-> Append(m.indices, row),
   data |-> Append(m.data, val)]

sm_seal_column(m) ==
  [n_rows |-> m.n_rows,
   indptr |-> Append(m.indptr, Len(m.indices)),
   indices |-> m.indices,
   data |-> m.data]

sm_col_rows(m, i_col) ==
  SubSeq(m.indices, m.indptr[i_col + 1] + 1, m.indptr[i_col + 2])

sm_col_data(m, i_col) ==
  SubSeq(m.data, m.indptr[i_col + 1] + 1, m.indptr[i_col + 2])

\* col_iter: the pairs <<row, value>> of column i_col, in storage order
sm_col_iter(m, i_col) ==
  [k \in 1..Len(sm_col_rows(m, i_col)) |->
     <<sm_col_rows(m, i_col)[k], sm_col_data(m, i_col)[k]>>]

\* the loop of append_col: every pair <<idx, val>> of col, in order
RECURSIVE sm_append_loop(_, _, _)
sm_append_loop(m, col, k) ==
  IF k > Len(col) THEN m
  ELSE sm_append_loop(sm_push(m, col[k][1], col[k][2]), col, k + 1)

\* assert_eq!(*self.indptr.last().unwrap(), self.indices.len())
sm_prev_column_sealed(m) == m.indptr[Len(m.indptr)] = Len(m.indices)

sm_append_col_unchecked(m, col) ==
  [mat |-> sm_seal_column(sm_append_loop(m, col, 1)), aborted |-> FALSE]

\* append_col: the matrix it leaves, and whether its assertion aborted the call
sm_append_col(m, col) ==
  IF ~sm_prev_column_sealed(m)
  THEN [mat |-> m, aborted |-> TRUE]
  ELSE [mat |-> sm_seal_column(sm_append_loop(m, col, 1)), aborted |-> FALSE]

(***************************************************************************)
(* SparseMat::transpose: a counting sort of the entries by row.            *)
(***************************************************************************)
transpose_out_same_rows(m) ==
  [n_rows |-> sm_rows(m),
   indptr |-> [r \in 1..(sm_rows(m) + 1) |-> 0],
   indices |-> [p \in 1..sm_nnz(m) |-> 0],
   data |-> [p \in 1..sm_nnz(m) |-> zero]]

\* `out` with its vectors resized: indptr to rows() + 1 zeros, indices and
\* data to nnz() zeros
transpose_out(m) ==
  [n_rows |-> sm_cols(m),
   indptr |-> [r \in 1..(sm_rows(m) + 1) |-> 0],
   indices |-> [p \in 1..sm_nnz(m) |-> 0],
   data |-> [p \in 1..sm_nnz(m) |-> zero]]

\* for &r in self.col_rows(c) { out.indptr[r] += 1 }
RECURSIVE count_col(_, _, _)
count_col(ptr, col_rows, k) ==
  IF k > Len(col_rows) THEN ptr
  ELSE count_col([ptr EXCEPT ![col_rows[k] + 1] = @ + 1], col_rows, k + 1)

\* for c in 0..self.cols()
RECURSIVE count_cols(_, _, _)
count_cols(m, ptr, c) ==
  IF c >= sm_cols(m) THEN ptr
  ELSE count_cols(m, count_col(ptr, sm_col_rows(m, c), 1), c + 1)

\* for r in 1..out.indptr.len() { out.indptr[r] += out.indptr[r - 1] }
RECURSIVE cumulate(_, _)
cumulate(ptr, r) ==
  IF r >= Len(ptr) THEN ptr
  ELSE cumulate([ptr EXCEPT ![r + 1] = @ + ptr[r]], r + 1)

place_entry_without_value(out, c, item) ==
  [n_rows |-> out.n_rows,
   indptr |-> [out.indptr EXCEPT ![item[1] + 1] = @ - 1],
   indices |-> [out.indices EXCEPT ![out.indptr[item[1] + 1]] = c],
   data |-> out.data]

\* out.indptr[r] -= 1; out.indices[out.indptr[r]] = c; out.data[out.indptr[r]] = val
\* for item = <<r, val>>; position out.indptr[r] - 1 is element out.indptr[r]
place_entry(out, c, item) ==
  [n_rows |-> out.n_rows,
   indptr |-> [out.indptr EXCEPT ![item[1] + 1] = @ - 1],
   indices |-> [out.indices EXCEPT ![out.indptr[item[1] + 1]] = c],
   data |-> [out.data EXCEPT ![out.indptr[item[1] + 1]] = item[2]]]

\* for (r, val) in self.col_iter(c)
RECURSIVE place_col(_, _, _, _)
place_col(out, c, items, k) ==
  IF k > Len(items) THEN out
  ELSE place_col(place_entry(out, c, items[k]), c, items, k + 1)

\* for c in 0..self.cols()
RECURSIVE place_cols(_, _, _)
place_cols(m, out, c) ==
  IF c >= sm_cols(m) THEN out
  ELSE place_cols(m, place_col(out, c, sm_col_iter(m, c), 1), c + 1)

\* transpose(): the counts, the cumulative counts, the placement, and
\* *out.indptr.last_mut().unwrap() = self.nnz()
sm_transpose(m) ==
  LET counted == [n_rows |-> transpose_out(m).n_rows,
                  indptr |-> cumulate(count_cols(m, transpose_out(m).indptr, 0), 1),
                  indices |-> transpose_out(m).indices,
                  data |-> transpose_out(m).data]
      placed == place_cols(m, counted, 0)
  IN  [n_rows |-> placed.n_rows,
       indptr |-> [placed.indptr EXCEPT ![Len(placed.indptr)] = sm_nnz(m)],
       indices |-> placed.indices,
       data |-> placed.data]

(***************************************************************************)
(* The numeric-domain capabilities of the network simplex                  *)
(* (src/src/network_simplex_value_type.rs): MulWithFloat and ToBigInt, one *)
(* implementation for each scalar type.  A scalar is a value with the name *)
(* of its type.  An f64 is drawn as n / 2^e, a Fraction as n / d; the      *)
(* product of two such f64 values is exact.                                *)
(***************************************************************************)
\* Largest magnitude of the integers and numerators drawn, and largest
\* binary exponent of an f64 denominator.
MaxInt == 2
MaxExp == 1

Scalar(v, t) == [val |-> v, ty |-> t]

\* the f64 (or FractionF64) n / 2^e
F64(n, e) == Norm(n, 2^e)

\* how a call ended: it returned v, or it panicked with a message
Returned(v) == [val |-> v, panicked |-> FALSE]
Panicked(m) == [msg |-> m, panicked |-> TRUE]

mul_with_float_f64(self, rhs_f) == Returned(Scalar(FracMul(self, rhs_f), "f64"))

mul_with_float_i64_multiplies(self, rhs_f) == Returned(Scalar(self * rhs_f.num, "i64"))

mul_with_float_i64(self, rhs_f) == Panicked("Cannot multiply values of different types")

mul_with_float_i128(self, rhs_f) == Panicked("Cannot multiply values of different types")

mul_with_float_Integer(self, rhs_f) == Panicked("Cannot multiply values of different types")

mul_with_float_Natural(self, rhs_f) == Panicked("Cannot multiply values of different types")

mul_with_float_FractionF64(self, rhs_f) ==
  Returned(Scalar(FracMul(self, rhs_f), "FractionF64"))

to_big_int_f64(self) == Panicked("Cannot multiply values of different types")

to_big_int_i64(self) == Returned(Scalar(self, "Integer"))

to_big_int_i128(self) == Returned(Scalar(self, "Integer"))

to_big_int_Integer(self) == Returned(Scalar(self, "Integer"))

to_big_int_Fraction(self) == Panicked("Cannot multiply values of different types")

(***************************************************************************)
(* resized_view (src/src/linear_programming_helpers.rs): the view of a     *)
(* sparse vector cut to a smaller dimension.  A sparse vector or view is   *)
(* its dimension, its indices and its data.                                *)
(***************************************************************************)
\* Largest dimension of the sparse vector passed to resized_view.
MaxDim == 3

\* the elements of the set S of numbers, in increasing order
RECURSIVE SortedSeq(_)
SortedSeq(S) ==
  IF S = {} THEN <<>>
  ELSE <<CHOOSE x \in S : \A y \in S : x <= y>>
         \o SortedSeq(S \ {CHOOSE x \in S : \A y \in S : x <= y})

\* the sparse vector of dimension d with the indices S and the values numbered by f
CsVec(d, S, f) ==
  [indices |-> SortedSeq(S),
   data |-> [k \in 1..Cardinality(S) |-> DrawnValues[f[k]]],
   dim |-> d]

\* &s[..(s.len() - 1)]
drop_last(s) == SubSeq(s, 1, Len(s) - 1)

loop_continues_above(cur_indices, len) ==
  /\ Len(cur_indices) > 0
  /\ cur_indices[Len(cur_indices)] > len

\* while let Some(&i) = indices.last() { if i < len { break; } ... }: whether
\* the body goes on to shorten the slices
loop_continues(cur_indices, len) ==
  /\ Len(cur_indices) > 0
  /\ ~(cur_indices[Len(cur_indices)] < len)

\* CsVecView::new_uncheked(len, indices, data): no check is made
new_uncheked(len, cur_indices, cur_data) ==
  [indices |-> cur_indices, data |-> cur_data, dim |-> len]

\* operations whose result is an AbnormalFraction
BinaryOps == {"add", "add_ref", "sub", "sub_ref", "mul", "mul_ref", "div", "div_ref"}
AssignOps == {"add_assign", "sub_assign"}
UnaryOps == {"abs", "floor", "ceil", "neg", "neg_ref"}

Init ==
  /\ acc = default
  /\ op = "default"
  /\ lhs = NoArg
  /\ rhs = NoArg
  /\ res = default
  /\ sv = sv_empty(0)
  /\ svop = "empty"
  /\ svarg = <<0>>
  /\ svres = sv_sq_norm(sv_empty(0))
  /\ svfirst = <<>>
  /\ svpure = TRUE
  /\ sm = sm_new(0)
  /\ smop = "new"
  /\ smarg = <<0>>
  /\ smres = sm_new(0)
  /\ smaborted = FALSE
  /\ smpending = 0
  /\ ndop = "none"
  /\ ndself = NoArg
  /\ ndrhs = NoArg
  /\ ndres = NoArg
  /\ rvpc = "idle"
  /\ rvvec = new_uncheked(0, <<>>, <<>>)
  /\ rvlen = 0
  /\ rvindices = <<>>
  /\ rvdata = <<>>
  /\ rvview = new_uncheked(0, <<>>, <<>>)
  /\ sumitems = <<>>
  /\ sumtotal = zero

\* Constructors: acc = <constructor>; the new value is also the recorded result.
Infinity ==
  /\ acc' = infinity
  /\ op' = "infinity"
  /\ UNCHANGED notAF
  /\ lhs' = NoArg
  /\ rhs' = NoArg
  /\ res' = infinity

NegInfinity ==
  /\ acc' = neg_infinity
  /\ op' = "neg_infinity"
  /\ UNCHANGED notAF
  /\ lhs' = NoArg
  /\ rhs' = NoArg
  /\ res' = neg_infinity

Zero ==
  /\ acc' = zero
  /\ op' = "zero"
  /\ UNCHANGED notAF
  /\ lhs' = NoArg
  /\ rhs' = NoArg
  /\ res' = zero

One ==
  /\ acc' = one
  /\ op' = "one"
  /\ UNCHANGED notAF
  /\ lhs' = NoArg
  /\ rhs' = NoArg
  /\ res' = one

MakeNaN ==
  /\ acc' = NaN
  /\ op' = "nan"
  /\ UNCHANGED notAF
  /\ lhs' = NoArg
  /\ rhs' = NoArg
  /\ res' = NaN

FromUsize ==
  \E n \in 0..MaxNum :
    /\ acc' = from_usize(n)
    /\ op' = "from_usize"
    /\ UNCHANGED notAF
    /\ lhs' = NoArg
    /\ rhs' = NoArg
    /\ res' = from_usize(n)

FromPair ==
  \E n \in 0..MaxNum, d \in 1..MaxDen :
    /\ acc' = from_pair(n, d)
    /\ op' = "from_pair"
    /\ UNCHANGED notAF
    /\ lhs' = NoArg
    /\ rhs' = NoArg
    /\ res' = from_pair(n, d)

\* Binary operations: res = acc <op> y for a drawn operand y; acc is left as it was.
Add ==
  \E k \in 0..3, n \in -MaxNum..MaxNum, d \in 1..MaxDen :
    /\ IsDraw(k, n, d)
    /\ op' = "add"
    /\ UNCHANGED notAF
    /\ lhs' = acc
    /\ rhs' = Operand(k, n, d)
    /\ res' = add(acc, Operand(k, n, d))
    /\ UNCHANGED acc

AddRef ==
  \E k \in 0..3, n \in -MaxNum..MaxNum, d \in 1..MaxDen :
    /\ IsDraw(k, n, d)
    /\ op' = "add_ref"
    /\ UNCHANGED notAF
    /\ lhs' = acc
    /\ rhs' = Operand(k, n, d)
    /\ res' = add_ref(acc, Operand(k, n, d))
    /\ UNCHANGED acc

Sub ==
  \E k \in 0..3, n \in -MaxNum..MaxNum, d \in 1..MaxDen :
    /\ IsDraw(k, n, d)
    /\ op' = "sub"
    /\ UNCHANGED notAF
    /\ lhs' = acc
    /\ rhs' = Operand(k, n, d)
    /\ res' = sub(acc, Operand(k, n, d))
    /\ UNCHANGED acc

SubRef ==
  \E k \in 0..3, n \in -MaxNum..MaxNum, d \in 1..MaxDen :
    /\ IsDraw(k, n, d)
    /\ op' = "sub_ref"
    /\ UNCHANGED notAF
    /\ lhs' = acc
    /\ rhs' = Operand(k, n, d)
    /\ res' = sub_ref(acc, Operand(k, n, d))
    /\ UNCHANGED acc

Mul ==
  \E k \in 0..3, n \in -MaxNum..MaxNum, d \in 1..MaxDen :
    /\ IsDraw(k, n, d)
    /\ op' = "mul"
    /\ UNCHANGED notAF
    /\ lhs' = acc
    /\ rhs' = Operand(k, n, d)
    /\ res' = mul(acc, Operand(k, n, d))
    /\ UNCHANGED acc

MulRef ==
  \E k \in 0..3, n \in -MaxNum..MaxNum, d \in 1..MaxDen :
    /\ IsDraw(k, n, d)
    /\ op' = "mul_ref"
    /\ UNCHANGED notAF
    /\ lhs' = acc
    /\ rhs' = Operand(k, n, d)
    /\ res' = mul_ref(acc, Operand(k, n, d))
    /\ UNCHANGED acc

Div ==
  \E k \in 0..3, n \in -MaxNum..MaxNum, d \in 1..MaxDen :
    /\ IsDraw(k, n, d)
    /\ op' = "div"
    /\ UNCHANGED notAF
    /\ lhs' = acc
    /\ rhs' = Operand(k, n, d)
    /\ res' = div(acc, Operand(k, n, d))
    /\ UNCHANGED acc

DivRef ==
  \E k \in 0..3, n \in -MaxNum..MaxNum, d \in 1..MaxDen :
    /\ IsDraw(k, n, d)
    /\ op' = "div_ref"
    /\ UNCHANGED notAF
    /\ lhs' = acc
    /\ rhs' = Operand(k, n, d)
    /\ res' = div_ref(acc, Operand(k, n, d))
    /\ UNCHANGED acc

PartialCmp ==
  \E k \in 0..3, n \in -MaxNum..MaxNum, d \in 1..MaxDen :
    /\ IsDraw(k, n, d)
    /\ op' = "partial_cmp"
    /\ UNCHANGED notAF
    /\ lhs' = acc
    /\ rhs' = Operand(k, n, d)
    /\ res' = [ord |-> partial_cmp(acc, Operand(k, n, d))]
    /\ UNCHANGED acc

\* Unary operations and queries: res = <op>(acc); acc is left as it was.
Neg ==
  /\ op' = "neg"
  /\ UNCHANGED notAF
  /\ lhs' = acc
  /\ rhs' = NoArg
  /\ res' = neg(acc)
  /\ UNCHANGED acc

NegRef ==
  /\ op' = "neg_ref"
  /\ UNCHANGED notAF
  /\ lhs' = acc
  /\ rhs' = NoArg
  /\ res' = neg_ref(acc)
  /\ UNCHANGED acc

Abs ==
  /\ op' = "abs"
  /\ UNCHANGED notAF
  /\ lhs' = acc
  /\ rhs' = NoArg
  /\ res' = abs(acc)
  /\ UNCHANGED acc

Floor ==
  /\ op' = "floor"
  /\ UNCHANGED notAF
  /\ lhs' = acc
  /\ rhs' = NoArg
  /\ res' = floor(acc)
  /\ UNCHANGED acc

Ceil ==
  /\ op' = "ceil"
  /\ UNCHANGED notAF
  /\ lhs' = acc
  /\ rhs' = NoArg
  /\ res' = ceil(acc)
  /\ UNCHANGED acc

ExtractExact ==
  /\ op' = "extract_exact"
  /\ UNCHANGED notAF
  /\ lhs' = acc
  /\ rhs' = NoArg
  /\ res' = extract_exact(acc)
  /\ UNCHANGED acc

ExtractApprox ==
  /\ op' = "extract_approx"
  /\ UNCHANGED notAF
  /\ lhs' = acc
  /\ rhs' = NoArg
  /\ res' = extract_approx(acc)
  /\ UNCHANGED acc

ToExact ==
  /\ op' = "to_exact"
  /\ UNCHANGED notAF
  /\ lhs' = acc
  /\ rhs' = NoArg
  /\ res' = to_exact(acc)
  /\ UNCHANGED acc

ToApprox ==
  /\ op' = "to_approx"
  /\ UNCHANGED notAF
  /\ lhs' = acc
  /\ rhs' = NoArg
  /\ res' = to_approx(acc)
  /\ UNCHANGED acc

Classify ==
  /\ op' = "classify"
  /\ UNCHANGED notAF
  /\ lhs' = acc
  /\ rhs' = NoArg
  /\ res' = [zero |-> is_zero(acc), one |-> is_one(acc),
             finite |-> is_finite(acc), infinite |-> is_infinite(acc),
             neg_infinite |-> is_neg_infinite(acc)]
  /\ UNCHANGED acc

\* acc += y and acc -= y, while the accumulator stays within the bounds
AddAssign ==
  \E k \in 0..3, n \in -MaxNum..MaxNum, d \in 1..MaxDen :
    /\ IsDraw(k, n, d)
    /\ InBounds(add_assign(acc, Operand(k, n, d)))
    /\ op' = "add_assign"
    /\ UNCHANGED notAF
    /\ lhs' = acc
    /\ rhs' = Operand(k, n, d)
    /\ acc' = add_assign(acc, Operand(k, n, d))
    /\ res' = add_assign(acc, Operand(k, n, d))

SubAssign ==
  \E k \in 0..3, n \in -MaxNum..MaxNum, d \in 1..MaxDen :
    /\ IsDraw(k, n, d)
    /\ InBounds(sub_assign(acc, Operand(k, n, d)))
    /\ op' = "sub_assign"
    /\ UNCHANGED notAF
    /\ lhs' = acc
    /\ rhs' = Operand(k, n, d)
    /\ acc' = sub_assign(acc, Operand(k, n, d))
    /\ res' = sub_assign(acc, Operand(k, n, d))

\* acc = res: the result of the last operation on acc becomes the accumulator,
\* as in Sum::sum's fold
Store ==
  /\ op \in BinaryOps \cup UnaryOps
  /\ InBounds(res)
  /\ acc' = res
  /\ op' = "store"
  /\ UNCHANGED notAF
  /\ lhs' = acc
  /\ rhs' = rhs
  /\ res' = res

Next ==
  \/ Infinity \/ NegInfinity \/ Zero \/ One \/ MakeNaN \/ FromUsize \/ FromPair
  \/ Add \/ AddRef \/ Sub \/ SubRef \/ Mul \/ MulRef \/ Div \/ DivRef
  \/ Neg \/ NegRef \/ Abs \/ Floor \/ Ceil
  \/ PartialCmp \/ ExtractExact \/ ExtractApprox \/ ToExact \/ ToApprox \/ Classify
  \/ AddAssign \/ SubAssign \/ Store

Spec == Init /\ [][Next]_vars

(***************************************************************************)
(* ScatteredVec driver: one vector `sv`; every step calls one method on    *)
(* it.  svop and svarg record the call and its argument; svres is what     *)
(* sq_norm() returns when called right after it.  svfirst lists the        *)
(* positions get_mut was called for since the vector was created or last   *)
(* cleared, each once, in the order of the first call; svpure tells that   *)
(* set() was not called since then.                                        *)
(***************************************************************************)
SvEmpty ==
  \E n \in 0..MaxLen :
    /\ sv' = sv_empty(n)
    /\ svop' = "empty"
    /\ svarg' = <<n>>
    /\ svres' = sv_sq_norm(sv')
    /\ svfirst' = <<>>
    /\ svpure' = TRUE
    /\ UNCHANGED notSV

\* get_mut(i), and the caller's write of a value through the reference (k > 0)
\* or no write (k = 0)
SvGetMut ==
  \E i \in 0..(MaxLen - 1), k \in 0..Len(DrawnValues) :
    /\ i < sv_len(sv)
    /\ sv' = IF k = 0 THEN sv_get_mut(sv, i)
             ELSE sv_write(sv_get_mut(sv, i), i, DrawnValues[k])
    /\ svop' = "get_mut"
    /\ svarg' = <<i>>
    /\ svres' = sv_sq_norm(sv')
    /\ svfirst' = IF i \in Range(svfirst) THEN svfirst ELSE Append(svfirst, i)
    /\ UNCHANGED svpure
    /\ UNCHANGED notSV

\* set(rhs) for a sequence rhs of at most MaxSetLen pairs with indices below len()
SvSet ==
  \E m \in 0..MaxSetLen :
    \E v \in [1..m -> DrawnEntries(sv_len(sv))] :
      /\ sv' = sv_set(sv, [k \in 1..m |-> DrawnEntry(v[k])])
      /\ svop' = "set"
      /\ svarg' = [k \in 1..m |-> DrawnEntry(v[k])]
      /\ svres' = sv_sq_norm(sv')
      /\ svfirst' = <<>>
      /\ svpure' = FALSE
      /\ UNCHANGED notSV

\* clear(); svarg records the positions that were listed
SvClear ==
  /\ sv' = sv_clear(sv)
  /\ svop' = "clear"
  /\ svarg' = sv.nonzero
  /\ svres' = sv_sq_norm(sv')
  /\ svfirst' = <<>>
  /\ svpure' = TRUE
  /\ UNCHANGED notSV

SvClearAndResize ==
  \E n \in 0..MaxLen :
    /\ sv' = sv_clear_and_resize(sv, n)
    /\ svop' = "clear_and_resize"
    /\ svarg' = <<n>>
    /\ svres' = sv_sq_norm(sv')
    /\ svfirst' = <<>>
    /\ svpure' = TRUE
    /\ UNCHANGED notSV

NextSV ==
  \/ SvEmpty \/ SvGetMut \/ SvSet \/ SvClear \/ SvClearAndResize

SpecSV == Init /\ [][NextSV]_vars

(***************************************************************************)
(* SparseMat driver: one matrix `sm`; every step calls one method on it.   *)
(* smop and smarg record the call and its argument, smres the matrix       *)
(* transpose() returned, smaborted that the call panicked, and smpending   *)
(* counts the entries pushed since the last column was sealed.             *)
(***************************************************************************)
SmNew ==
  \E n \in 0..MaxRows :
    /\ sm' = sm_new(n)
    /\ smop' = "new"
    /\ smarg' = <<n>>
    /\ smres' = sm_new(0)
    /\ smaborted' = FALSE
    /\ smpending' = 0
    /\ UNCHANGED notSM

SmClearAndResize ==
  \E n \in 0..MaxRows :
    /\ ~smaborted
    /\ sm' = sm_clear_and_resize(sm, n)
    /\ smop' = "clear_and_resize"
    /\ smarg' = <<n>>
    /\ smres' = sm_new(0)
    /\ smpending' = 0
    /\ UNCHANGED smaborted
    /\ UNCHANGED notSM

\* push(row, val) with a row below rows(), while the matrix has room
SmPush ==
  \E p \in DrawnEntries(sm_rows(sm)) :
    /\ ~smaborted
    /\ sm_nnz(sm) < MaxNnz
    /\ sm' = sm_push(sm, DrawnEntry(p)[1], DrawnEntry(p)[2])
    /\ smop' = "push"
    /\ smarg' = DrawnEntry(p)
    /\ smres' = sm_new(0)
    /\ smpending' = smpending + 1
    /\ UNCHANGED smaborted
    /\ UNCHANGED notSM

SmSealColumn ==
  /\ ~smaborted
  /\ sm_cols(sm) < MaxCols
  /\ sm' = sm_seal_column(sm)
  /\ smop' = "seal_column"
  /\ smarg' = <<>>
  /\ smres' = sm_new(0)
  /\ smpending' = 0
  /\ UNCHANGED smaborted
  /\ UNCHANGED notSM

\* append_col(col) for a sequence col of entries with rows below rows()
SmAppendCol ==
  \E n \in 0..MaxNnz :
    \E col \in [1..n -> DrawnEntries(sm_rows(sm))] :
      /\ ~smaborted
      /\ sm_cols(sm) < MaxCols
      /\ sm_nnz(sm) + n <= MaxNnz
      /\ sm' = sm_append_col(sm, [k \in 1..n |-> DrawnEntry(col[k])]).mat
      /\ smop' = "append_col"
      /\ smarg' = [k \in 1..n |-> DrawnEntry(col[k])]
      /\ smres' = sm_new(0)
      /\ smaborted' = sm_append_col(sm, [k \in 1..n |-> DrawnEntry(col[k])]).aborted
      /\ smpending' = IF sm_append_col(sm, [k \in 1..n |-> DrawnEntry(col[k])]).aborted
                      THEN smpending ELSE 0
      /\ UNCHANGED notSM

\* transpose() of a matrix whose columns are all sealed
SmTranspose ==
  /\ ~smaborted
  /\ sm_prev_column_sealed(sm)
  /\ smop' = "transpose"
  /\ smarg' = <<>>
  /\ smres' = sm_transpose(sm)
  /\ UNCHANGED <<sm, smaborted, smpending>>
  /\ UNCHANGED notSM

NextSM ==
  \/ SmNew \/ SmClearAndResize \/ SmPush \/ SmSealColumn \/ SmAppendCol \/ SmTranspose

SpecSM == Init /\ [][NextSM]_vars

(***************************************************************************)
(* Numeric-domain driver: every step calls mul_with_float or to_big_int on *)
(* a drawn scalar of one type.  ndop, ndself and ndrhs record the call and *)
(* its arguments, ndres how it ended.                                      *)
(***************************************************************************)
MulWithFloatF64 ==
  \E n \in -MaxInt..MaxInt, e \in 0..MaxExp, rn \in -MaxInt..MaxInt, re \in 0..MaxExp :
    /\ ndop' = "mul_with_float"
    /\ ndself' = Scalar(F64(n, e), "f64")
    /\ ndrhs' = Scalar(F64(rn, re), "f64")
    /\ ndres' = mul_with_float_f64(F64(n, e), F64(rn, re))
    /\ UNCHANGED notND

MulWithFloatI64 ==
  \E n \in -MaxInt..MaxInt, rn \in -MaxInt..MaxInt, re \in 0..MaxExp :
    /\ ndop' = "mul_with_float"
    /\ ndself' = Scalar(n, "i64")
    /\ ndrhs' = Scalar(F64(rn, re), "f64")
    /\ ndres' = mul_with_float_i64(n, F64(rn, re))
    /\ UNCHANGED notND

MulWithFloatI128 ==
  \E n \in -MaxInt..MaxInt, rn \in -MaxInt..MaxInt, re \in 0..MaxExp :
    /\ ndop' = "mul_with_float"
    /\ ndself' = Scalar(n, "i128")
    /\ ndrhs' = Scalar(F64(rn, re), "f64")
    /\ ndres' = mul_with_float_i128(n, F64(rn, re))
    /\ UNCHANGED notND

MulWithFloatInteger ==
  \E n \in -MaxInt..MaxInt, rn \in -MaxInt..MaxInt, re \in 0..MaxExp :
    /\ ndop' = "mul_with_float"
    /\ ndself' = Scalar(n, "Integer")
    /\ ndrhs' = Scalar(F64(rn, re), "f64")
    /\ ndres' = mul_with_float_Integer(n, F64(rn, re))
    /\ UNCHANGED notND

MulWithFloatNatural ==
  \E n \in 0..MaxInt, rn \in -MaxInt..MaxInt, re \in 0..MaxExp :
    /\ ndop' = "mul_with_float"
    /\ ndself' = Scalar(n, "Natural")
    /\ ndrhs' = Scalar(F64(rn, re), "f64")
    /\ ndres' = mul_with_float_Natural(n, F64(rn, re))
    /\ UNCHANGED notND

MulWithFloatFractionF64 ==
  \E n \in -MaxInt..MaxInt, e \in 0..MaxExp, rn \in -MaxInt..MaxInt, re \in 0..MaxExp :
    /\ ndop' = "mul_with_float"
    /\ ndself' = Scalar(F64(n, e), "FractionF64")
    /\ ndrhs' = Scalar(F64(rn, re), "f64")
    /\ ndres' = mul_with_float_FractionF64(F64(n, e), F64(rn, re))
    /\ UNCHANGED notND

ToBigIntF64 ==
  \E n \in -MaxInt..MaxInt, e \in 0..MaxExp :
    /\ ndop' = "to_big_int"
    /\ ndself' = Scalar(F64(n, e), "f64")
    /\ ndrhs' = NoArg
    /\ ndres' = to_big_int_f64(F64(n, e))
    /\ UNCHANGED notND

ToBigIntI64 ==
  \E n \in -MaxInt..MaxInt :
    /\ ndop' = "to_big_int"
    /\ ndself' = Scalar(n, "i64")
    /\ ndrhs' = NoArg
    /\ ndres' = to_big_int_i64(n)
    /\ UNCHANGED notND

ToBigIntI128 ==
  \E n \in -MaxInt..MaxInt :
    /\ ndop' = "to_big_int"
    /\ ndself' = Scalar(n, "i128")
    /\ ndrhs' = NoArg
    /\ ndres' = to_big_int_i128(n)
    /\ UNCHANGED notND

ToBigIntInteger ==
  \E n \in -MaxInt..MaxInt :
    /\ ndop' = "to_big_int"
    /\ ndself' = Scalar(n, "Integer")
    /\ ndrhs' = NoArg
    /\ ndres' = to_big_int_Integer(n)
    /\ UNCHANGED notND

ToBigIntFraction ==
  \E n \in -MaxInt..MaxInt, d \in 1..(MaxExp + 2) :
    /\ ndop' = "to_big_int"
    /\ ndself' = Scalar(Norm(n, d), "Fraction")
    /\ ndrhs' = NoArg
    /\ ndres' = to_big_int_Fraction(Norm(n, d))
    /\ UNCHANGED notND

NextND ==
  \/ MulWithFloatF64 \/ MulWithFloatI64 \/ MulWithFloatI128 \/ MulWithFloatInteger \/ MulWithFloatNatural \/ MulWithFloatFractionF64
  \/ ToBigIntF64 \/ ToBigIntI64 \/ ToBigIntI128 \/ ToBigIntInteger \/ ToBigIntFraction

SpecND == Init /\ [][NextND]_vars

(***************************************************************************)
(* resized_view as a process: RvCall enters the function with a drawn      *)
(* vector rvvec and length rvlen, RvDropLast is one turn of the loop,      *)
(* RvReturn leaves the loop and builds the view rvview.  rvindices and     *)
(* rvdata are the slices `indices` and `data` of the function.             *)
(***************************************************************************)
RvCall ==
  \E d \in 0..MaxDim, len \in 0..(MaxDim + 1) :
    \E S \in SUBSET (0..(d - 1)) :
      \E f \in [1..Cardinality(S) -> 1..Len(DrawnValues)] :
        /\ rvpc # "loop"
        /\ rvpc' = "loop"
        /\ rvvec' = CsVec(d, S, f)
        /\ rvlen' = len
        /\ rvindices' = CsVec(d, S, f).indices
        /\ rvdata' = CsVec(d, S, f).data
        /\ rvview' = new_uncheked(0, <<>>, <<>>)
        /\ UNCHANGED notRV

RvDropLast ==
  /\ rvpc = "loop"
  /\ loop_continues(rvindices, rvlen)
  /\ rvindices' = drop_last(rvindices)
  /\ rvdata' = drop_last(rvdata)
  /\ UNCHANGED <<rvpc, rvvec, rvlen, rvview>>
  /\ UNCHANGED notRV

RvReturn ==
  /\ rvpc = "loop"
  /\ ~loop_continues(rvindices, rvlen)
  /\ rvpc' = "done"
  /\ rvview' = new_uncheked(rvlen, rvindices, rvdata)
  /\ UNCHANGED <<rvvec, rvlen, rvindices, rvdata>>
  /\ UNCHANGED notRV

NextRV ==
  \/ RvCall \/ RvDropLast \/ RvReturn

\* the function runs on once entered
SpecRV == Init /\ [][NextRV]_vars /\ WF_vars(RvDropLast) /\ WF_vars(RvReturn)

(***************************************************************************)
(* Sum for AbnormalFraction: every step is one call of sum on a sequence   *)
(* of values, the empty one or the sequence of the call before with one    *)
(* more value at its end; sumitems is the sequence, sumtotal the result.   *)
(***************************************************************************)
\* Longest sequence summed.
MaxSumLen == 3

SumEmpty ==
  /\ sumitems' = <<>>
  /\ sumtotal' = sum(<<>>)
  /\ UNCHANGED notSum

SumAppended ==
  \E k \in 0..3, n \in -MaxNum..MaxNum, d \in 1..MaxDen :
    /\ IsDraw(k, n, d)
    /\ Len(sumitems) < MaxSumLen
    /\ sumitems' = Append(sumitems, Operand(k, n, d))
    /\ sumtotal' = sum(Append(sumitems, Operand(k, n, d)))
    /\ UNCHANGED notSum

NextSum ==
  \/ SumEmpty \/ SumAppended

SpecSum == Init /\ [][NextSum]_vars

(***************************************************************************)
(* Properties of the extended numeric domain.                              *)
(* The recorded operands are lhs, rhs; the recorded result is res.         *)
(***************************************************************************)
IsNormal(a) == a.tag = "Normal"
IsInf(a) == a.tag \in {"Infinite", "NegInfinite"}
IsVariant(a) == a.tag \in {"Normal", "Infinite", "NegInfinite", "NaN"}
\* sign of a value that is not NaN: -1, 0 or 1
Sign(a) ==
  CASE a.tag = "Infinite" -> 1
    [] a.tag = "NegInfinite" -> -1
    [] a.tag = "Normal" -> IF a.num > 0 THEN 1 ELSE IF a.num < 0 THEN -1 ELSE 0
\* the infinity of sign s, s # 0
InfOfSign(s) == IF s > 0 THEN Infinite ELSE NegInfinite
\* res is a Normal value equal, as a rational, to n/d (d # 0)
ResIsRational(n, d) ==
  /\ IsNormal(res)
  /\ res.den > 0
  /\ res.num * d = n * res.den

\* C1: addition, by value and by reference, is total and follows the table:
\* Normal+Normal is the exact rational sum; an infinity plus a Normal (either
\* order) or plus itself is that infinity; opposite infinities add to NaN;
\* anything plus NaN, and NaN plus anything, is NaN.
C1_AddTable ==
  op \in {"add", "add_ref"} =>
    /\ IsVariant(res)
    /\ (IsNormal(lhs) /\ IsNormal(rhs)) =>
         ResIsRational(lhs.num * rhs.den + rhs.num * lhs.den, lhs.den * rhs.den)
    /\ (IsNormal(lhs) /\ IsInf(rhs)) => res = rhs
    /\ (IsInf(lhs) /\ IsNormal(rhs)) => res = lhs
    /\ (IsInf(lhs) /\ IsInf(rhs)) => res = (IF lhs = rhs THEN lhs ELSE NaN)
    /\ (lhs = NaN \/ rhs = NaN) => res = NaN

C1_Witness ==
  /\ op = "add_ref" /\ lhs = Infinite /\ rhs = NegInfinite /\ res = NaN

\* C2: subtraction, by value and by reference, equals addition of the negated
\* right operand, where negation swaps the infinities and fixes NaN; equal
\* infinities subtract to NaN, opposite ones to the left operand, and a Normal
\* minus an infinity is the opposite infinity.
C2_SubMirrorsAdd ==
  op \in {"sub", "sub_ref"} =>
    /\ res = add(lhs, neg(rhs))
    /\ res = add_ref(lhs, neg_ref(rhs))
    /\ neg(Infinite) = NegInfinite /\ neg(NegInfinite) = Infinite /\ neg(NaN) = NaN
    /\ (IsInf(lhs) /\ lhs = rhs) => res = NaN
    /\ (lhs = Infinite /\ rhs = NegInfinite) => res = Infinite
    /\ (lhs = NegInfinite /\ rhs = Infinite) => res = NegInfinite
    /\ (IsNormal(lhs) /\ rhs = Infinite) => res = NegInfinite
    /\ (IsNormal(lhs) /\ rhs = NegInfinite) => res = Infinite

C2_Witness ==
  /\ op = "sub_ref" /\ lhs = NegInfinite /\ rhs = NegInfinite /\ res = NaN

\* C3: multiplication, by value and by reference: Normal*Normal is the exact
\* rational product; a Normal times an infinity (either order) is the infinity
\* of the product of the signs, and NaN when the Normal is zero; two infinities
\* multiply to the infinity of the product of their signs; and the result does
\* not depend on the order of the operands.
C3_MulTable ==
  op \in {"mul", "mul_ref"} =>
    /\ (IsNormal(lhs) /\ IsNormal(rhs)) =>
         ResIsRational(lhs.num * rhs.num, lhs.den * rhs.den)
    /\ ((IsNormal(lhs) /\ IsInf(rhs)) \/ (IsInf(lhs) /\ IsNormal(rhs))) =>
         res = (IF Sign(lhs) * Sign(rhs) = 0 THEN NaN
                ELSE InfOfSign(Sign(lhs) * Sign(rhs)))
    /\ (IsInf(lhs) /\ IsInf(rhs)) => res = InfOfSign(Sign(lhs) * Sign(rhs))
    /\ res = (IF op = "mul" THEN mul(rhs, lhs) ELSE mul_ref(rhs, lhs))

C3_Witness ==
  /\ op = "mul_ref" /\ lhs = Normal(FracZero) /\ rhs = NegInfinite /\ res = NaN

\* C4: division, by value and by reference, is total: Normal/Normal is the
\* exact rational quotient for a non-zero divisor and NaN for a zero divisor;
\* Normal/infinity is the Normal zero; infinity/Normal is the infinity of the
\* product of the signs, and NaN for a zero divisor; infinity/infinity is NaN.
C4_DivTable ==
  op \in {"div", "div_ref"} =>
    /\ IsVariant(res)
    /\ (IsNormal(lhs) /\ IsNormal(rhs) /\ rhs.num # 0) =>
         ResIsRational(lhs.num * rhs.den, lhs.den * rhs.num)
    /\ (IsNormal(lhs) /\ IsNormal(rhs) /\ rhs.num = 0) => res = NaN
    /\ (IsNormal(lhs) /\ IsInf(rhs)) => res = Normal(FracZero)
    /\ (IsInf(lhs) /\ IsNormal(rhs)) =>
         res = (IF Sign(rhs) = 0 THEN NaN ELSE InfOfSign(Sign(lhs) * Sign(rhs)))
    /\ (IsInf(lhs) /\ IsInf(rhs)) => res = NaN

C4_Witness ==
  /\ op = "div_ref" /\ lhs = Infinite /\ rhs = Infinite /\ res = NaN

\* C5: NaN is absorbing.  Every step that applies +, -, *, / (by value or by
\* reference), += or -= with a NaN operand on either side records NaN as its
\* result; and once the accumulator is NaN, it is still NaN after a step that
\* applies += or -= to it or stores the result of an operation on it.
C5_NaNAbsorbing ==
  [][ /\ (op' \in BinaryOps \cup AssignOps /\ (lhs' = NaN \/ rhs' = NaN)) => res' = NaN
      /\ (acc = NaN /\ op' \in AssignOps \cup {"store"}) => acc' = NaN ]_vars

C5_Witness ==
  /\ op = "add_assign" /\ lhs = NaN /\ IsNormal(rhs) /\ acc = NaN

\* C6: partial_cmp: two Normal values compare by rational value; +inf against
\* a Normal or -inf is Greater, -inf against a Normal or +inf is Less, and the
\* mirrored comparisons give the opposite; a comparison with NaN on either
\* side, +inf with +inf, and -inf with -inf give no ordering.
C6_PartialCmpTable ==
  op = "partial_cmp" =>
    /\ (IsNormal(lhs) /\ IsNormal(rhs)) =>
         /\ (lhs.num * rhs.den < rhs.num * lhs.den) => res.ord = "Less"
         /\ (lhs.num * rhs.den = rhs.num * lhs.den) => res.ord = "Equal"
         /\ (lhs.num * rhs.den > rhs.num * lhs.den) => res.ord = "Greater"
    /\ (lhs = Infinite /\ (IsNormal(rhs) \/ rhs = NegInfinite)) => res.ord = "Greater"
    /\ (lhs = NegInfinite /\ (IsNormal(rhs) \/ rhs = Infinite)) => res.ord = "Less"
    /\ (rhs = Infinite /\ (IsNormal(lhs) \/ lhs = NegInfinite)) => res.ord = "Less"
    /\ (rhs = NegInfinite /\ (IsNormal(lhs) \/ lhs = Infinite)) => res.ord = "Greater"
    /\ (lhs = NaN \/ rhs = NaN) => res.ord = "None"
    /\ (IsInf(lhs) /\ lhs = rhs) => res.ord = "None"

C6_Witness ==
  /\ op = "partial_cmp" /\ lhs = Infinite /\ rhs = Infinite /\ res.ord = "None"

\* C7: abs, neg, floor and ceil are total on the four variants and follow the
\* extended-real conventions: abs(+inf) = abs(-inf) = +inf, so that abs(x) is
\* never negative; abs(NaN) = NaN; neg swaps the infinities; floor and ceil
\* leave +inf, -inf and NaN unchanged.
C7_UnaryConventions ==
  /\ op \in UnaryOps => IsVariant(res)
  /\ op = "abs" =>
       /\ IsInf(lhs) => res = Infinite
       /\ lhs = NaN => res = NaN
       /\ res # NegInfinite
       /\ IsNormal(res) => res.num >= 0
  /\ op \in {"neg", "neg_ref"} =>
       /\ lhs = Infinite => res = NegInfinite
       /\ lhs = NegInfinite => res = Infinite
  /\ op \in {"floor", "ceil"} => (~IsNormal(lhs) => res = lhs)

C7_Witness ==
  /\ op = "abs" /\ lhs = Infinite /\ res = NegInfinite

\* C8: extract_exact, extract_approx, to_exact and to_approx each return an
\* error for +inf, -inf and NaN, and for a Normal value return what the same
\* extraction of the wrapped fraction returns.
C8_Extraction ==
  /\ op = "extract_exact" =>
       IF IsNormal(lhs) THEN res = FracExtractExact(Frac(lhs)) ELSE ~res.ok
  /\ op = "extract_approx" =>
       IF IsNormal(lhs) THEN res = FracExtractApprox(Frac(lhs)) ELSE ~res.ok
  /\ op = "to_exact" =>
       IF IsNormal(lhs) THEN res = FracToExact(Frac(lhs)) ELSE ~res.ok
  /\ op = "to_approx" =>
       IF IsNormal(lhs) THEN res = FracToApprox(Frac(lhs)) ELSE ~res.ok

C8_Witness ==
  /\ op = "to_exact" /\ lhs = NaN /\ ~res.ok

\* C9: for Normal a and b drawn from the bounded fractions: a + b is the Normal
\* of the exact rational sum, a - a is the Normal zero, a * one() is a, and
\* a / a is one() when a is not zero.
C9_FiniteIdentities ==
  (IsNormal(lhs) /\ IsNormal(rhs)) =>
    /\ op \in {"add", "add_ref"} =>
         ResIsRational(lhs.num * rhs.den + rhs.num * lhs.den, lhs.den * rhs.den)
    /\ (op \in {"sub", "sub_ref"} /\ rhs = lhs) => res = Normal(FracZero)
    /\ (op \in {"mul", "mul_ref"} /\ rhs = one) => res = lhs
    /\ (op \in {"div", "div_ref"} /\ rhs = lhs /\ lhs.num # 0) => res = one

C9_Witness ==
  /\ op = "div" /\ lhs = Normal([num |-> -1, den |-> 2]) /\ rhs = lhs /\ res = one

\* C10: the classification predicates partition the values: exactly one of
\* is_finite, is_infinite and being NaN holds; is_finite holds exactly of the
\* Normal values, is_infinite exactly of +inf and -inf, is_neg_infinite
\* exactly of -inf; is_zero and is_one are false of +inf, -inf and NaN; and
\* is_zero holds of zero().
C10_Classification ==
  op = "classify" =>
    /\ Cardinality({i \in 1..3 : <<res.finite, res.infinite, lhs = NaN>>[i]}) = 1
    /\ res.finite <=> IsNormal(lhs)
    /\ res.infinite <=> IsInf(lhs)
    /\ res.neg_infinite <=> (lhs = NegInfinite)
    /\ ~IsNormal(lhs) => (~res.zero /\ ~res.one)
    /\ lhs = zero => res.zero

C10_Witness ==
  /\ op = "classify" /\ lhs = NaN /\ ~res.finite /\ ~res.infinite /\ ~res.zero

(***************************************************************************)
(* ScatteredVec claims                                                     *)
(***************************************************************************)
\* C11: in every state reached from ScatteredVec::empty(n) by get_mut, set,
\* clear and clear_and_resize with in-range indices, `nonzero` lists exactly
\* the positions whose is_nonzero flag is set, and `values` and `is_nonzero`
\* have the same length.
C11_NonzeroMatchesFlags ==
  /\ Len(sv.values) = Len(sv.is_nonzero)
  /\ Range(sv.nonzero) \subseteq 0..(Len(sv.is_nonzero) - 1)
  /\ \A i \in 0..(Len(sv.is_nonzero) - 1) :
       (i \in Range(sv.nonzero)) <=> sv.is_nonzero[i + 1]

C11_Witness ==
  /\ svop = "get_mut"
  /\ sv_len(sv) = 2
  /\ Len(sv.nonzero) = 1
  /\ \E i \in 0..1 : ~sv.is_nonzero[i + 1]

\* C12: get_mut(i) lists i in `nonzero` on its first call after creation or
\* clear and changes neither `nonzero` nor `is_nonzero` on a later call: while
\* only get_mut was called since then, `nonzero` holds every position at most
\* once, in the order of first access.
C12_GetMutRegistersOnce ==
  /\ [](svpure =>
          /\ sv.nonzero = svfirst
          /\ \A k1, k2 \in 1..Len(sv.nonzero) :
               sv.nonzero[k1] = sv.nonzero[k2] => k1 = k2)
  /\ [][svop' = "get_mut" =>
          IF sv.is_nonzero[svarg'[1] + 1]
          THEN /\ sv_indices(sv') = sv_indices(sv)
               /\ sv'.is_nonzero = sv.is_nonzero
          ELSE /\ sv_indices(sv') = Append(sv_indices(sv), svarg'[1])
               /\ sv'.is_nonzero = [sv.is_nonzero EXCEPT ![svarg'[1] + 1] = TRUE]
      ]_vars

\* get_mut(1) was called again after get_mut(1) and get_mut(0)
C12_Witness ==
  /\ svpure
  /\ svop = "get_mut"
  /\ svarg = <<1>>
  /\ sv.nonzero = <<1, 0>>

\* C13: a clear() that follows any set and get_mut writes leaves indices()
\* empty, every is_nonzero flag false, exact zero at every position below
\* len(), and len() as it was; positions that were not listed in `nonzero`
\* keep their value and flag.
C13_ClearZeroesListed ==
  [][svop' = "clear" =>
       /\ sv_indices(sv') = <<>>
       /\ sv_len(sv') = sv_len(sv)
       /\ Len(sv'.is_nonzero) = Len(sv.is_nonzero)
       /\ \A i \in 0..(sv_len(sv) - 1) :
            /\ ~sv'.is_nonzero[i + 1]
            /\ sv_get(sv', i) = zero
            /\ i \notin Range(sv.nonzero) =>
                 /\ sv_get(sv', i) = sv_get(sv, i)
                 /\ sv'.is_nonzero[i + 1] = sv.is_nonzero[i + 1]
    ]_vars

\* clear() ran on a vector of length 2 with both positions listed
C13_Witness ==
  /\ svop = "clear"
  /\ sv_len(sv) = 2
  /\ Len(svarg) = 2
  /\ sv.nonzero = <<>>

\* the sum of the squares of the values of the pairs of v
SumSquares(v) == sum([k \in 1..Len(v) |-> mul(v[k][2], v[k][2])])

DistinctIndices(v) == \A k1, k2 \in 1..Len(v) : v[k1][1] = v[k2][1] => k1 = k2

\* C14 as stated: for every sequence v of pairs with indices below len(),
\* sq_norm() right after set(v) is the sum of the squares of the values of v.
C14_SqNormAfterSet ==
  svop = "set" => svres = SumSquares(svarg)

\* C14, amended: the same for every v whose indices are pairwise distinct.
C14_SqNormAfterSetDistinct ==
  (svop = "set" /\ DistinctIndices(svarg)) => svres = SumSquares(svarg)

\* set(<<(i, 2), (j, 2)>>) with i # j gave sq_norm() = 8
C14_Witness ==
  /\ svop = "set"
  /\ Len(svarg) = 2
  /\ DistinctIndices(svarg)
  /\ svres = from_usize(8)

(***************************************************************************)
(* SparseMat claims                                                        *)
(***************************************************************************)
NonDecreasing(s) == \A k \in 1..(Len(s) - 1) : s[k] <= s[k + 1]

\* C15 as stated: in every state reached from new(n) by push, seal_column,
\* append_col and clear_and_resize, indptr starts at 0, is non-decreasing, and
\* its last element is the number of stored entries.
C15_IndptrInvariant ==
  /\ sm.indptr[1] = 0
  /\ NonDecreasing(sm.indptr)
  /\ Len(sm.indices) = Len(sm.data)
  /\ sm_nnz(sm) = Len(sm.indices)
  /\ sm.indptr[Len(sm.indptr)] = sm_nnz(sm)

\* C15, amended: indptr starts at 0 and is non-decreasing, indices and data
\* have the length nnz(), and the last element of indptr is nnz() less the
\* entries pushed since the last column was sealed.
C15_IndptrInvariantSealed ==
  /\ sm.indptr[1] = 0
  /\ NonDecreasing(sm.indptr)
  /\ Len(sm.indices) = Len(sm.data)
  /\ sm_nnz(sm) = Len(sm.indices)
  /\ sm.indptr[Len(sm.indptr)] + smpending = sm_nnz(sm)

\* two sealed columns, the second not empty, and one entry pushed after them
C15_Witness ==
  /\ smop = "push"
  /\ sm_cols(sm) = 2
  /\ sm.indptr[2] < sm.indptr[3]
  /\ smpending = 1

\* C16: append_col called while pushed entries are unsealed aborts and leaves
\* the matrix as it was; called with the previous column sealed it adds the
\* supplied entries as one sealed column: cols() grows by 1, nnz() by the
\* number of supplied entries, and the earlier columns stay as they were.
C16_AppendCol ==
  [][smop' = "append_col" =>
       IF ~sm_prev_column_sealed(sm)
       THEN /\ smaborted'
            /\ sm' = sm
       ELSE /\ ~smaborted'
            /\ sm_rows(sm') = sm_rows(sm)
            /\ sm_cols(sm') = sm_cols(sm) + 1
            /\ sm_nnz(sm') = sm_nnz(sm) + Len(smarg')
            /\ sm_prev_column_sealed(sm')
            /\ sm_col_iter(sm', sm_cols(sm)) = smarg'
            /\ \A c \in 0..(sm_cols(sm) - 1) :
                 sm_col_iter(sm', c) = sm_col_iter(sm, c)
    ]_vars

\* append_col with one entry supplied aborted: one pushed entry was unsealed
C16_Witness ==
  /\ smop = "append_col"
  /\ smaborted
  /\ Len(smarg) = 1
  /\ smpending = 1
  /\ sm_nnz(sm) = 1

\* the number of times x occurs in the sequence s
CountIn(s, x) == Cardinality({k \in 1..Len(s) : s[k] = x})

\* s and t hold the same items the same number of times
SameBag(s, t) ==
  /\ Len(s) = Len(t)
  /\ \A k \in 1..Len(s) : CountIn(s, s[k]) = CountIn(t, s[k])

\* C17: for a matrix M with all columns sealed and rows below rows(),
\* transpose(transpose(M)) has the dimensions of M and, in every column, the
\* same multiset of (row, value) entries as M.
C17_TransposeInvolutive ==
  smop = "transpose" =>
    /\ sm_rows(sm_transpose(smres)) = sm_rows(sm)
    /\ sm_cols(sm_transpose(smres)) = sm_cols(sm)
    /\ sm_nnz(sm_transpose(smres)) = sm_nnz(sm)
    /\ \A c \in 0..(sm_cols(sm) - 1) :
         SameBag(sm_col_iter(sm_transpose(smres), c), sm_col_iter(sm, c))

\* a matrix of two entries whose double transpose stores them in another order
C17_Witness ==
  /\ smop = "transpose"
  /\ sm_nnz(sm) = 2
  /\ sm.data[1] # sm.data[2]
  /\ sm_transpose(smres) # sm

\* the number of entries of m in row r
EntriesInRow(m, r) == Cardinality({k \in 1..Len(m.indices) : m.indices[k] = r})

NonIncreasing(s) == \A k \in 1..(Len(s) - 1) : s[k] >= s[k + 1]

\* C18: for a matrix M with all columns sealed and rows below rows(),
\* transpose() returns T with T.rows() = M.cols(), T.cols() = M.rows(),
\* T.indptr[0] = 0, T.indptr[r+1] - T.indptr[r] the number of entries of M in
\* row r, last pointer M.nnz(); column r of T holds the pair (c, value) as
\* often as column c of M holds (r, value), stored by decreasing c; M is
\* unchanged.
C18_TransposeLayout ==
  [][smop' = "transpose" =>
       /\ sm' = sm
       /\ sm_rows(smres') = sm_cols(sm)
       /\ sm_cols(smres') = sm_rows(sm)
       /\ smres'.indptr[1] = 0
       /\ smres'.indptr[Len(smres'.indptr)] = sm_nnz(sm)
       /\ sm_nnz(smres') = sm_nnz(sm)
       /\ Len(smres'.indices) = sm_nnz(sm)
       /\ \A r \in 0..(sm_rows(sm) - 1) :
            /\ smres'.indptr[r + 2] - smres'.indptr[r + 1] = EntriesInRow(sm, r)
            /\ NonIncreasing(sm_col_rows(smres', r))
            /\ \A c \in 0..(sm_cols(sm) - 1) :
                 \A v \in Range(sm.data) \cup Range(smres'.data) :
                   CountIn(sm_col_iter(smres', r), <<c, v>>)
                     = CountIn(sm_col_iter(sm, c), <<r, v>>)
    ]_vars

\* row 0 of a two-column matrix has an entry in each column: column 0 of the
\* transpose lists column 1 before column 0
C18_Witness ==
  /\ smop = "transpose"
  /\ sm_cols(sm) = 2
  /\ sm_cols(smres) >= 1
  /\ sm_col_rows(smres, 0) = <<1, 0>>

(***************************************************************************)
(* Numeric-domain claims                                                   *)
(***************************************************************************)
\* C19: mul_with_float panics for every argument on i64, i128, Integer and
\* Natural and returns the product on f64 and FractionF64; to_big_int panics
\* for every value on f64 and Fraction and returns an Integer of the same
\* value on i64, i128 and Integer.  The type alone decides whether a call
\* panics.
C19_CapabilityByType ==
  /\ ndop = "mul_with_float" =>
       IF ndself.ty = "f64" \/ ndself.ty = "FractionF64"
       THEN /\ ~ndres.panicked
            /\ ndres.val.ty = ndself.ty
            /\ ndres.val.val.den > 0
            /\ ndres.val.val.num * (ndself.val.den * ndrhs.val.den)
                 = (ndself.val.num * ndrhs.val.num) * ndres.val.val.den
       ELSE /\ ndself.ty = "i64" \/ ndself.ty = "i128"
               \/ ndself.ty = "Integer" \/ ndself.ty = "Natural"
            /\ ndres.panicked
  /\ ndop = "to_big_int" =>
       IF ndself.ty = "f64" \/ ndself.ty = "Fraction"
       THEN ndres.panicked
       ELSE /\ ndself.ty = "i64" \/ ndself.ty = "i128" \/ ndself.ty = "Integer"
            /\ ~ndres.panicked
            /\ ndres.val.ty = "Integer"
            /\ ndres.val.val = ndself.val

\* mul_with_float panicked on the i64 2 with the f64 1/2
C19_Witness ==
  /\ ndop = "mul_with_float"
  /\ ndself.ty = "i64"
  /\ ndself.val = 2
  /\ ndrhs.val = F64(1, 1)
  /\ ndres.panicked

(***************************************************************************)
(* resized_view claims                                                     *)
(***************************************************************************)
\* the entries <<index, value>> of a sparse vector or view, in storage order
EntriesOf(v) == [k \in 1..Len(v.indices) |-> <<v.indices[k], v.data[k]>>]

EntryBelowLen(e) == e[1] < rvlen

\* C20: for a sparse vector with strictly increasing indices, resized_view
\* terminates and returns a view of dimension len holding exactly the entries
\* of the vector with index below len, in the same order with the same
\* values; indices and data keep equal lengths; with len at least the
\* dimension nothing is dropped; with every index at least len the view is
\* empty.
C20_ResizedView ==
  /\ [](rvpc = "done" =>
          /\ rvview.dim = rvlen
          /\ Len(rvview.indices) = Len(rvview.data)
          /\ EntriesOf(rvview) = SelectSeq(EntriesOf(rvvec), EntryBelowLen)
          /\ rvlen >= rvvec.dim => EntriesOf(rvview) = EntriesOf(rvvec)
          /\ (\A k \in 1..Len(rvvec.indices) : rvvec.indices[k] >= rvlen)
               => EntriesOf(rvview) = <<>>)
  /\ [](rvpc = "loop" => Len(rvindices) = Len(rvdata))
  /\ (rvpc = "loop" ~> rvpc = "done")

\* the view of length 1 of a vector with the indices 0, 1, 2: two entries dropped
C20_Witness ==
  /\ rvpc = "done"
  /\ rvlen = 1
  /\ rvvec.indices = <<0, 1, 2>>
  /\ rvview.indices = <<0>>

(***************************************************************************)
(* AbnormalFraction claims: refinement, equality and summation             *)
(***************************************************************************)
\* C21: after a += b the value of a is a + b, after a -= b it is a - b, and
\* each operator on references returns what the operator on values returns
\* for the same operands.
C21_AssignAndRefRefine ==
  /\ op = "add_assign" => (acc = add(lhs, rhs) /\ res = acc)
  /\ op = "sub_assign" => (acc = sub(lhs, rhs) /\ res = acc)
  /\ op = "add_ref" => res = add(lhs, rhs)
  /\ op = "sub_ref" => res = sub(lhs, rhs)
  /\ op = "mul_ref" => res = mul(lhs, rhs)
  /\ op = "div_ref" => res = div(lhs, rhs)

\* a -= b ran with a = b = +infinity and left NaN, as a - b does
C21_Witness ==
  /\ op = "sub_assign"
  /\ lhs = Infinite
  /\ rhs = Infinite
  /\ acc = NaN

\* C22: a == b holds exactly when partial_cmp(a, b) is Some(Equal), also for
\* a = b = +infinity, a = b = -infinity and a = b = NaN.
C22_EqIffCmpEqual ==
  op = "partial_cmp" => (eq(lhs, rhs) <=> res.ord = "Equal")

\* +infinity == +infinity holds while partial_cmp of the two returned None
C22_Witness ==
  /\ op = "partial_cmp"
  /\ lhs = Infinite
  /\ rhs = Infinite
  /\ eq(lhs, rhs)
  /\ res.ord = "None"

HasVariant(items, t) == \E i \in 1..Len(items) : items[i].tag = t

\* a common denominator of the fractions items[k..], and the numerator of
\* their sum over the denominator D
RECURSIVE DenProduct(_, _)
DenProduct(items, k) ==
  IF k > Len(items) THEN 1 ELSE items[k].den * DenProduct(items, k + 1)

RECURSIVE NumSum(_, _, _)
NumSum(items, k, D) ==
  IF k > Len(items) THEN 0
  ELSE items[k].num * (D \div items[k].den) + NumSum(items, k + 1, D)

Reordered(items, p) == [i \in 1..Len(items) |-> items[p[i]]]

\* C23: the sum of a sequence does not depend on the order of its elements:
\* it is zero for the empty sequence, NaN if the sequence holds NaN or both
\* infinities, the one infinity it holds otherwise, and else the exact
\* rational sum of the elements.
C23_SumOrderIndependent ==
  LET n == Len(sumitems)
      nan == HasVariant(sumitems, "NaN")
      pinf == HasVariant(sumitems, "Infinite")
      ninf == HasVariant(sumitems, "NegInfinite")
      D == DenProduct(sumitems, 1)
  IN  /\ n = 0 => sumtotal = zero
      /\ (nan \/ (pinf /\ ninf)) => sumtotal = NaN
      /\ (pinf /\ ~ninf /\ ~nan) => sumtotal = Infinite
      /\ (ninf /\ ~pinf /\ ~nan) => sumtotal = NegInfinite
      /\ (~nan /\ ~pinf /\ ~ninf) =>
            /\ sumtotal.tag = "Normal"
            /\ sumtotal.den > 0
            /\ sumtotal.num * D = NumSum(sumitems, 1, D) * sumtotal.den
      /\ \A p \in Permutations(1..n) : sum(Reordered(sumitems, p)) = sumtotal

\* three values were summed, +infinity first and -infinity last around a
\* fraction, and the sum is NaN
C23_Witness ==
  /\ Len(sumitems) = 3
  /\ sumitems[1].tag = "Infinite"
  /\ sumitems[2].tag = "Normal"
  /\ sumitems[2].num = 1
  /\ sumitems[2].den = 2
  /\ sumitems[3].tag = "NegInfinite"
  /\ sumtotal = NaN

====
